---- MODULE Spec2Model ----
(***************************************************************************)
(* Model of cli.py (KHROS command editor): the modal line editor           *)
(* (TextEditor.run and its key handlers, the undo history) and the         *)
(* control-structure expansion behind send_all_lines.                      *)
(*                                                                         *)
(* Text is modelled at character level: a Python str is a sequence of      *)
(* one-character strings, and the buffer `lines` is a sequence of those.   *)
(* Python indices are 0-based; current_line and current_col keep their     *)
(* Python values and the model adds 1 when it indexes a sequence.          *)
(***************************************************************************)
EXTENDS Integers, Sequences, FiniteSets, TLC

VARIABLES
    lines,            \* self.lines: the buffer
    current_line,     \* self.current_line (0-based)
    current_col,      \* self.current_col (0-based, can be driven negative)
    mode,             \* self.mode: "NORMAL" or "INSERT"
    history,          \* self.history: stack of snapshots of lines
    status,           \* self.status (kind of the message only)
    variables,        \* self.variables: insertion-ordered name/value pairs
    running,          \* TRUE until run() returns
    pc,               \* position inside send_all_lines: "idle", "scan", "send", "pace", "done"
    i,                \* the index i of process_control_structures, then of send_all_lines
    processed_lines,  \* processed_lines of process_control_structures, then of send_all_lines
    aborted,          \* the scan hit a `return []`
    sent,             \* commands handed to send_command_to_tty by the current send
    tty,              \* history variable: outcome of the attempts of the current send
    nkeys,            \* keys processed by run() so far
    last,             \* history variable: the handler that ran last and what it saw
    note              \* history variable: what the current expansion has met

vars == <<lines, current_line, current_col, mode, history, status, variables,
          running, pc, i, processed_lines, aborted, sent, tty, nkeys, last, note>>

edVars  == <<lines, current_line, current_col, mode, history>>
expVars == <<variables, pc, i, processed_lines, aborted, sent, tty, note>>

(***************************************************************************)
(* Bounds of the exploration.                                              *)
(***************************************************************************)
MaxKeys == 7       \* keys of an editing session
MaxScript == 3     \* lines of a generated script
MaxSession == 3    \* keys of a session that starts on a script

\* printable keys typed in INSERT mode: the blank and a letter, one that is a
\* motion command in NORMAL mode
Chars == {" ", "h"}

(***************************************************************************)
(* Python string primitives.                                               *)
(***************************************************************************)
Min(a, b) == IF a < b THEN a ELSE b
Max(a, b) == IF a > b THEN a ELSE b

\* Position a slice bound k denotes in a string of length n (negative bounds
\* count from the end, everything is clamped to 0..n).
PyIdx(n, k) == IF k < 0 THEN Max(0, n + k) ELSE Min(k, n)

\* s[a:b]
Slice(s, a, b) ==
    LET lo == PyIdx(Len(s), a)
        hi == PyIdx(Len(s), b)
    IN  IF lo >= hi THEN <<>> ELSE SubSeq(s, lo + 1, hi)

\* s[:k]
SliceTo(s, k) == Slice(s, 0, k)

\* s[k:]
SliceFrom(s, k) ==
    LET lo == PyIdx(Len(s), k)
    IN  IF lo >= Len(s) THEN <<>> ELSE SubSeq(s, lo + 1, Len(s))

\* " " * n   (a non-positive count gives the empty string)
Spaces(n) == [k \in 1..Max(0, n) |-> " "]

\* number of leading blanks of s
RECURSIVE LeadingBlanks(_)
LeadingBlanks(s) ==
    IF s = <<>> \/ Head(s) # " " THEN 0 ELSE 1 + LeadingBlanks(Tail(s))

\* number of trailing blanks of s
RECURSIVE TrailingBlanks(_)
TrailingBlanks(s) ==
    IF s = <<>> \/ s[Len(s)] # " " THEN 0
    ELSE 1 + TrailingBlanks(SubSeq(s, 1, Len(s) - 1))

\* s.lstrip()
LStrip(s) == SliceFrom(s, LeadingBlanks(s))

\* s.strip()
Strip(s) ==
    LET t == LStrip(s)
    IN  SubSeq(t, 1, Len(t) - TrailingBlanks(t))

\* s.startswith(p)
StartsWith(s, p) == Len(s) >= Len(p) /\ SubSeq(s, 1, Len(p)) = p

\* TextEditor.get_indent_level
get_indent_level(line) == Len(line) - Len(LStrip(line))

\* self.lines[k] and its length; the buffer is never indexed out of range
LineAt(ls, k) == IF k + 1 \in 1..Len(ls) THEN ls[k + 1] ELSE <<>>

\* list.insert(k, x) for 0 <= k <= len
ListInsert(ls, k, x) == SubSeq(ls, 1, k) \o <<x>> \o SubSeq(ls, k + 1, Len(ls))

\* del list[k] for 0 <= k < len
ListDel(ls, k) == SubSeq(ls, 1, k) \o SubSeq(ls, k + 2, Len(ls))

\* list[k] = x
ListSet(ls, k, x) == [ls EXCEPT ![k + 1] = x]

(***************************************************************************)
(* Cursor motion (cli.py 91-134, 776-784).  Each handler is a function of  *)
(* the buffer ls, the line index cl, the column cc.                        *)
(***************************************************************************)
\* enter_insert_mode_after: the new column
enter_insert_mode_after(ls, cl, cc) == Min(cc + 1, Len(LineAt(ls, cl)))

\* variant of move_left: one column at a time, also at the indentation width
move_left_plain(ls, cl, cc) == IF cc > 0 THEN cc - 1 ELSE cc

\* move_left: the new column
move_left(ls, cl, cc) ==
    IF cc > 0
    THEN LET current_indent == get_indent_level(LineAt(ls, cl))
         IN  IF cc = current_indent THEN Max(0, current_indent - 4) ELSE cc - 1
    ELSE cc

\* move_right: the new column
move_right(ls, cl, cc) ==
    IF cc < Len(LineAt(ls, cl))
    THEN LET current_indent == get_indent_level(LineAt(ls, cl))
         IN  IF cc = current_indent - 4 THEN current_indent ELSE cc + 1
    ELSE cc

\* the column adjustment shared by move_up and move_down, on destination line cl
AdjustCol(ls, cl, cc) ==
    LET current_indent == get_indent_level(LineAt(ls, cl))
        c1 == Min(cc, Len(LineAt(ls, cl)))
    IN  IF c1 < current_indent THEN current_indent ELSE c1

\* move_up: the new (line, column)
move_up(ls, cl, cc) ==
    IF cl > 0
    THEN [current_line |-> cl - 1, current_col |-> AdjustCol(ls, cl - 1, cc)]
    ELSE [current_line |-> cl, current_col |-> cc]

\* move_down: the new (line, column)
move_down(ls, cl, cc) ==
    IF cl < Len(ls) - 1
    THEN [current_line |-> cl + 1, current_col |-> AdjustCol(ls, cl + 1, cc)]
    ELSE [current_line |-> cl, current_col |-> cc]

\* move_to_end_and_insert: the new column
move_to_end_and_insert(ls, cl) == Len(LineAt(ls, cl))

(***************************************************************************)
(* Buffer edits (cli.py 136-235).  Each returns the new buffer state.      *)
(***************************************************************************)
Ed(ls, cl, cc) == [lines |-> ls, current_line |-> cl, current_col |-> cc]

\* insert_line_below
insert_line_below(ls, cl, cc) == Ed(ListInsert(ls, cl + 1, <<>>), cl + 1, 0)

\* insert_line_above
insert_line_above(ls, cl, cc) == Ed(ListInsert(ls, cl, <<>>), cl, 0)

\* delete_char
delete_char(ls, cl, cc) ==
    LET line == LineAt(ls, cl)
    IN  IF cc < Len(line)
        THEN Ed(ListSet(ls, cl, SliceTo(line, cc) \o SliceFrom(line, cc + 1)), cl, cc)
        ELSE Ed(ls, cl, cc)

\* delete_line with its guard off by one (len(self.lines) > 0)
delete_line_unguarded(ls, cl, cc) ==
    IF Len(ls) > 0
    THEN LET ls2 == ListDel(ls, cl)
             cl2 == IF cl >= Len(ls2) THEN Len(ls2) - 1 ELSE cl
         IN  Ed(ls2, cl2, Min(cc, Len(LineAt(ls2, cl2))))
    ELSE Ed(ls, cl, cc)

\* delete_line
delete_line(ls, cl, cc) ==
    IF Len(ls) > 1
    THEN LET ls2 == ListDel(ls, cl)
             cl2 == IF cl >= Len(ls2) THEN Len(ls2) - 1 ELSE cl
         IN  Ed(ls2, cl2, Min(cc, Len(LineAt(ls2, cl2))))
    ELSE Ed(ls, cl, cc)

tab_size == 4

\* handle_tab
handle_tab(ls, cl, cc, m) ==
    IF m = "INSERT"
    THEN LET line == LineAt(ls, cl)
         IN  Ed(ListSet(ls, cl, SliceTo(line, cc) \o Spaces(tab_size) \o SliceFrom(line, cc)),
                cl, cc + tab_size)
    ELSE Ed(ls, cl, cc)

\* str.lower() on the letters that occur in the control keywords
Lower(ch) ==
    CASE ch = "I" -> "i" [] ch = "F" -> "f" [] ch = "O" -> "o" [] ch = "R" -> "r"
      [] ch = "E" -> "e" [] ch = "L" -> "l" [] ch = "S" -> "s" [] ch = "N" -> "n"
      [] ch = "D" -> "d" [] OTHER -> ch

\* the characters of s before its first blank
RECURSIVE UpToBlank(_)
UpToBlank(s) ==
    IF s = <<>> \/ Head(s) = " " THEN <<>> ELSE <<Head(s)>> \o UpToBlank(Tail(s))

\* line.split()[0].lower(), or the empty string when line.split() is empty
FirstWordLower(line) ==
    LET w == UpToBlank(LStrip(line)) IN [k \in 1..Len(w) |-> Lower(w[k])]

KwIf   == <<"i", "f">>
KwFor  == <<"f", "o", "r">>
KwElse == <<"e", "l", "s", "e">>
KwEnd  == <<"e", "n", "d">>

\* auto_indent_control
auto_indent_control(line) ==
    LET cmd == FirstWordLower(line)
    IN  IF cmd = <<>> THEN 0
        ELSE IF cmd \in {KwIf, KwFor, KwElse} THEN get_indent_level(line) + tab_size
        ELSE IF cmd = KwEnd THEN Max(0, get_indent_level(line) - tab_size)
        ELSE get_indent_level(line)

\* new_line
new_line(ls, cl, cc, m) ==
    IF m = "INSERT"
    THEN LET line == LineAt(ls, cl)
             before_cursor == SliceTo(line, cc)
             after_cursor == SliceFrom(line, cc)
             indent == auto_indent_control(before_cursor)
         IN  Ed(ListInsert(ListSet(ls, cl, before_cursor), cl + 1,
                           Spaces(indent) \o after_cursor),
                cl + 1, indent)
    ELSE Ed(ls, cl, cc)

\* backspace
backspace(ls, cl, cc, m) ==
    LET line == LineAt(ls, cl) IN
    IF m # "INSERT" THEN Ed(ls, cl, cc)
    ELSE IF cc > 0
    THEN LET current_indent == get_indent_level(line)
         IN  IF cc = current_indent /\ current_indent > 0
             THEN Ed(ListSet(ls, cl, Spaces(current_indent - 4) \o SliceFrom(line, current_indent)),
                     cl, current_indent - 4)
             ELSE Ed(ListSet(ls, cl, SliceTo(line, cc - 1) \o SliceFrom(line, cc)),
                     cl, cc - 1)
    ELSE IF cl > 0
    THEN LET prev == LineAt(ls, cl - 1)
         IN  Ed(ListDel(ListSet(ls, cl - 1, prev \o line), cl), cl - 1, Len(prev))
    ELSE Ed(ls, cl, cc)

\* the printable-character branch of run() (cli.py 760-768)
insert_char(ls, cl, cc, ch) ==
    LET line == LineAt(ls, cl)
    IN  Ed(ListSet(ls, cl, SliceTo(line, cc) \o <<ch>> \o SliceFrom(line, cc)), cl, cc + 1)

(***************************************************************************)
(* Undo (cli.py 680-693).                                                  *)
(***************************************************************************)
\* variant of save_state: only the latest snapshot is kept
save_state_single(hist, ls) == <<ls>>

\* save_state: the new history
save_state(hist, ls) == Append(hist, ls)

\* undo that pops the snapshot without putting it back into self.lines
undo_pop_only(hist, ls, cl, cc) ==
    IF hist # <<>>
    THEN [ed |-> Ed(ls, Min(cl, Len(ls) - 1), Min(cc, Len(LineAt(ls, Min(cl, Len(ls) - 1))))),
          history |-> SubSeq(hist, 1, Len(hist) - 1)]
    ELSE [ed |-> Ed(ls, cl, cc), history |-> hist]

\* variant of undo: with nothing to undo the buffer is reset to one empty line
undo_empty_resets(hist, ls, cl, cc) ==
    IF hist # <<>>
    THEN LET ls2 == hist[Len(hist)]
             cl2 == Min(cl, Len(ls2) - 1)
         IN  [ed |-> Ed(ls2, cl2, Min(cc, Len(LineAt(ls2, cl2)))),
              history |-> SubSeq(hist, 1, Len(hist) - 1)]
    ELSE [ed |-> Ed(<< <<>> >>, 0, 0), history |-> hist]

\* undo: the new buffer state and history
undo(hist, ls, cl, cc) ==
    IF hist # <<>>
    THEN LET ls2 == hist[Len(hist)]
             cl2 == Min(cl, Len(ls2) - 1)
         IN  [ed |-> Ed(ls2, cl2, Min(cc, Len(LineAt(ls2, cl2)))),
              history |-> SubSeq(hist, 1, Len(hist) - 1)]
    ELSE [ed |-> Ed(ls, cl, cc), history |-> hist]

(***************************************************************************)
(* More Python string primitives, used by the expansion.                   *)
(***************************************************************************)
S_let      == <<"l", "e", "t", " ">>
S_if       == <<"i", "f", " ">>
S_else_if  == <<"e", "l", "s", "e", " ", "i", "f", " ">>
S_else     == <<"e", "l", "s", "e">>
S_end      == <<"e", "n", "d">>
S_for      == <<"f", "o", "r", " ">>
S_in       == <<" ", "i", "n", " ">>
S_range    == <<"r", "a", "n", "g", "e", "(">>
S_eq       == <<"=">>
S_comma    == <<",">>
S_True     == <<"T", "r", "u", "e">>
S_False    == <<"F", "a", "l", "s", "e">>
S_builtins == <<"_", "_", "b", "u", "i", "l", "t", "i", "n", "s", "_", "_">>

Digits == {"0", "1", "2", "3", "4", "5", "6", "7", "8", "9"}

\* characters that continue a Python identifier or number
IsWordChar(ch) == ch \notin {" ", "=", ",", "(", ")", "[", "]", "-", "+", "<", ">", "!", "*", "/", "%", "?"}

\* 1-based position of the first occurrence of sub in s at or after position
\* from, 0 when there is none (sub is not empty)
RECURSIVE Find(_, _, _)
Find(s, sub, from) ==
    IF from + Len(sub) - 1 > Len(s) THEN 0
    ELSE IF SubSeq(s, from, from + Len(sub) - 1) = sub THEN from
    ELSE Find(s, sub, from + 1)

\* s.split(sep), sep not empty
RECURSIVE SplitOn(_, _)
SplitOn(s, sep) ==
    LET k == Find(s, sep, 1)
    IN  IF k = 0 THEN <<s>>
        ELSE <<SubSeq(s, 1, k - 1)>> \o SplitOn(SubSeq(s, k + Len(sep), Len(s)), sep)

\* s.replace(old, new): every non-overlapping occurrence, left to right; an
\* empty old matches before every character and at the end
RECURSIVE Replace(_, _, _)
Replace(s, old, new) ==
    IF old = <<>>
    THEN IF s = <<>> THEN new ELSE new \o <<Head(s)>> \o Replace(Tail(s), old, new)
    ELSE LET k == Find(s, old, 1)
         IN  IF k = 0 THEN s
             ELSE SubSeq(s, 1, k - 1) \o new
                  \o Replace(SubSeq(s, k + Len(old), Len(s)), old, new)

DigitVal(ch) ==
    CASE ch = "0" -> 0 [] ch = "1" -> 1 [] ch = "2" -> 2 [] ch = "3" -> 3 [] ch = "4" -> 4
      [] ch = "5" -> 5 [] ch = "6" -> 6 [] ch = "7" -> 7 [] ch = "8" -> 8 [] ch = "9" -> 9

DigitChr(d) ==
    CASE d = 0 -> "0" [] d = 1 -> "1" [] d = 2 -> "2" [] d = 3 -> "3" [] d = 4 -> "4"
      [] d = 5 -> "5" [] d = 6 -> "6" [] d = 7 -> "7" [] d = 8 -> "8" [] d = 9 -> "9"

AllDigits(s) == s # <<>> /\ \A k \in 1..Len(s) : s[k] \in Digits

\* value of a non-empty digit string
RECURSIVE DigitsVal(_)
DigitsVal(s) ==
    IF Len(s) = 1 THEN DigitVal(s[1])
    ELSE 10 * DigitsVal(SubSeq(s, 1, Len(s) - 1)) + DigitVal(s[Len(s)])

\* int(s): blanks around an optionally signed run of digits, ValueError otherwise
ParseInt(s) ==
    LET t == Strip(s)
        signed == t # <<>> /\ t[1] \in {"-", "+"}
        d == IF signed THEN Tail(t) ELSE t
    IN  IF AllDigits(d)
        THEN [ok |-> TRUE,
              val |-> IF signed /\ t[1] = "-" THEN 0 - DigitsVal(d) ELSE DigitsVal(d)]
        ELSE [ok |-> FALSE, val |-> 0]

\* str(n) of a natural number
RECURSIVE NatStr(_)
NatStr(n) == IF n < 10 THEN <<DigitChr(n)>> ELSE NatStr(n \div 10) \o <<DigitChr(n % 10)>>

(***************************************************************************)
(* Values and the variable dictionary.  A value is tagged: an int, a bool  *)
(* (kept as 0 or 1, as Python compares it) or the builtins dictionary that *)
(* eval() stores into its globals.  self.variables keeps insertion order.  *)
(***************************************************************************)
IntV(n)  == [t |-> "int", v |-> n]
BoolV(b) == [t |-> "bool", v |-> IF b THEN 1 ELSE 0]
BuiltinsV == [t |-> "builtins", v |-> 0]

\* str(value)
ToStr(val) ==
    CASE val.t = "int"  -> IF val.v < 0 THEN <<"-">> \o NatStr(0 - val.v) ELSE NatStr(val.v)
      [] val.t = "bool" -> IF val.v = 1 THEN S_True ELSE S_False
      [] OTHER -> <<"{", "}">>

\* bool(value)
Truthy(val) == val.t = "builtins" \/ val.v # 0

\* name in d
HasVar(d, name) == \E k \in 1..Len(d) : d[k].name = name

\* d[name]
GetVar(d, name) == d[CHOOSE k \in 1..Len(d) : d[k].name = name].value

\* d[name] = val  (a new key goes to the end, an old key keeps its place)
SetVar(d, name, val) ==
    IF HasVar(d, name)
    THEN [k \in 1..Len(d) |-> IF d[k].name = name THEN [name |-> name, value |-> val] ELSE d[k]]
    ELSE Append(d, [name |-> name, value |-> val])

\* what eval(expr, d) does to d before it evaluates
WithBuiltins(d) == IF HasVar(d, S_builtins) THEN d ELSE SetVar(d, S_builtins, BuiltinsV)

(***************************************************************************)
(* eval() on the expressions of the modelled scripts: an atom, or          *)
(* atom == atom, where an atom is a decimal literal, True, False or a      *)
(* name.  Anything else is reported as an evaluation error, as are names   *)
(* that are not bound.                                                     *)
(***************************************************************************)
\* length of the run of word characters at the head of s
RECURSIVE WordLen(_)
WordLen(s) == IF s = <<>> \/ ~IsWordChar(Head(s)) THEN 0 ELSE 1 + WordLen(Tail(s))

\* the tokens of s; an unreadable piece becomes a token of type "err"
RECURSIVE Tokens(_)
Tokens(s) ==
    IF s = <<>> THEN <<>>
    ELSE IF Head(s) = " " THEN Tokens(Tail(s))
    ELSE IF Len(s) >= 2 /\ SubSeq(s, 1, 2) = <<"=", "=">>
         THEN <<[t |-> "op", s |-> SubSeq(s, 1, 2)]>> \o Tokens(SubSeq(s, 3, Len(s)))
    ELSE IF Head(s) = "-" /\ WordLen(Tail(s)) > 0 /\ AllDigits(SubSeq(s, 2, 1 + WordLen(Tail(s))))
         THEN <<[t |-> "int", s |-> SubSeq(s, 1, 1 + WordLen(Tail(s)))]>>
              \o Tokens(SubSeq(s, 2 + WordLen(Tail(s)), Len(s)))
    ELSE IF WordLen(s) = 0 THEN <<[t |-> "err", s |-> <<Head(s)>>]>>
    ELSE LET w == SubSeq(s, 1, WordLen(s))
             rest == SubSeq(s, WordLen(s) + 1, Len(s))
         IN  IF w[1] \in Digits
             THEN IF AllDigits(w) /\ (Len(w) = 1 \/ w[1] # "0")
                  THEN <<[t |-> "int", s |-> w]>> \o Tokens(rest)
                  ELSE <<[t |-> "err", s |-> w]>>
             ELSE <<[t |-> "name", s |-> w]>> \o Tokens(rest)

Fail == [ok |-> FALSE, val |-> IntV(0)]
Ok(val) == [ok |-> TRUE, val |-> val]

\* value of one token in the namespace d
Atom(tok, d) ==
    IF tok.t = "int" THEN Ok(IntV(ParseInt(tok.s).val))
    ELSE IF tok.t = "name"
    THEN IF tok.s = S_True THEN Ok(BoolV(TRUE))
         ELSE IF tok.s = S_False THEN Ok(BoolV(FALSE))
         ELSE IF HasVar(d, tok.s) THEN Ok(GetVar(d, tok.s))
         ELSE Fail
    ELSE Fail

\* a == b on two evaluated operands
Compare(a, b) ==
    IF a.ok /\ b.ok
    THEN Ok(BoolV(a.val.t # "builtins" /\ b.val.t # "builtins" /\ a.val.v = b.val.v))
    ELSE Fail

\* value of a tokenised expression
EvalTokens(toks, d) ==
    IF Len(toks) = 1 THEN Atom(toks[1], d)
    ELSE IF Len(toks) = 3 /\ toks[2].t = "op"
    THEN Compare(Atom(toks[1], d), Atom(toks[3], d))
    ELSE Fail

\* eval(expr, d)
Eval(expr, d) == EvalTokens(Tokens(expr), d)


(***************************************************************************)
(* Variable assignment and conditions (cli.py 245-275).                    *)
(***************************************************************************)
\* process_variable_assignment: whether it succeeded, the dictionary and the
\* status it leaves
\* the store after eval has returned r (cli.py 258-263); eval has put
\* __builtins__ into the dictionary whether or not it raised
assign_value(var_name, r, d) ==
    IF r.ok
    THEN [ok |-> TRUE, variables |-> SetVar(WithBuiltins(d), var_name, r.val),
          status |-> "set"]
    ELSE [ok |-> FALSE, variables |-> WithBuiltins(d), status |-> "assign_error"]

\* the body of the try block on the split text (cli.py 251-255)
assign_parts(parts, d) ==
    IF Len(parts) # 2
    THEN [ok |-> FALSE, variables |-> d, status |-> "assign_error"]
    ELSE assign_value(Strip(parts[1]), Eval(Strip(parts[2]), d), d)

process_variable_assignment(line, d, st) ==
    IF StartsWith(line, S_let)
    THEN assign_parts(SplitOn(Strip(SliceFrom(line, 4)), S_eq), d)
    ELSE [ok |-> FALSE, variables |-> d, status |-> st]

\* the loop of evaluate_condition that replaces each variable name, in
\* dictionary order from entry k on, by the text of its value
RECURSIVE Substitute(_, _, _)
Substitute(condition, d, k) ==
    IF k > Len(d) THEN condition
    ELSE Substitute(Replace(condition, d[k].name, ToStr(d[k].value)), d, k + 1)

\* evaluate_condition: its result and the status it leaves; an evaluation
\* error is caught there and gives False
condition_value(r, st) ==
    IF r.ok THEN [val |-> Truthy(r.val), status |-> st]
    ELSE [val |-> FALSE, status |-> "cond_error"]

evaluate_condition(condition, d, st) ==
    condition_value(Eval(Substitute(condition, d, 1), <<>>), st)

(***************************************************************************)
(* process_control_structures (cli.py 277-391).                            *)
(***************************************************************************)
\* variant of Stops: the `else if` branch ends its loops with the test of the
\* `if` branch
Stops_else_if_as_if(kind, next_line) ==
    CASE kind \in {"if", "else if"} -> StartsWith(next_line, S_else_if) \/ next_line = S_else
                                       \/ next_line = S_end
      [] kind = "else"    -> next_line = S_end
      [] kind = "for"     -> StartsWith(next_line, S_end)

\* the test that ends the inner while loop of each kind of block
Stops(kind, next_line) ==
    CASE kind = "if"      -> StartsWith(next_line, S_else_if) \/ next_line = S_else
                             \/ next_line = S_end
      [] kind = "else if" -> next_line = S_else \/ next_line = S_end
      [] kind = "else"    -> next_line = S_end
      [] kind = "for"     -> StartsWith(next_line, S_end)

\* where the inner while loop started at index k stops: the first index at or
\* after k whose line ends the block, len(lines) when there is none
RECURSIVE ScanTo(_, _, _)
ScanTo(ls, k, kind) ==
    IF k >= Len(ls) THEN Len(ls)
    ELSE IF Stops(kind, Strip(ls[k + 1])) THEN k
    ELSE ScanTo(ls, k + 1, kind)

\* lines[a:b] for 0 <= a, b <= len
Between(ls, a, b) == SubSeq(ls, a + 1, b)

\* list(range(start, stop, step)) for step # 0
RECURSIVE RangeFrom(_, _, _)
RangeFrom(start, stop, step) ==
    IF (step > 0 /\ start < stop) \/ (step < 0 /\ start > stop)
    THEN <<start>> \o RangeFrom(start + step, stop, step)
    ELSE <<>>

\* list(range(*args)) for one to three arguments
RangeOf(args) ==
    IF Len(args) = 1 THEN RangeFrom(0, args[1], 1)
    ELSE IF Len(args) = 2 THEN RangeFrom(args[1], args[2], 1)
    ELSE RangeFrom(args[1], args[2], args[3])

\* body repeated n times
RECURSIVE Repeat(_, _)
Repeat(body, n) == IF n <= 0 THEN <<>> ELSE body \o Repeat(body, n - 1)

\* the state of the scan: index, output, dictionary, status, and whether the
\* function has returned [] from an except clause
Scan(k, out, d, st, ab) ==
    [i |-> k, processed_lines |-> out, variables |-> d, status |-> st, aborted |-> ab]

\* the two arms of an `if` or `else if` branch once its condition has given
\* c: the body up to index j is appended, or the lines up to j are skipped
take_body(ls, s, c, j) ==
    Scan(j, s.processed_lines \o Between(ls, s.i + 1, j), s.variables, c.status, FALSE)

take_or_skip(ls, s, c, kind) ==
    IF c.val THEN take_body(ls, s, c, ScanTo(ls, s.i + 1, kind))
    ELSE Scan(ScanTo(ls, s.i, kind), s.processed_lines, s.variables, c.status, FALSE)

\* the `if` branch (cli.py 293-315)
scan_if(ls, s, line) ==
    take_or_skip(ls, s, evaluate_condition(Strip(SliceFrom(line, 3)), s.variables, s.status),
                 "if")

\* the `else if` branch (cli.py 318-339)
scan_else_if(ls, s, line) ==
    take_or_skip(ls, s, evaluate_condition(Strip(SliceFrom(line, 8)), s.variables, s.status),
                 "else if")

\* the `else` branch (cli.py 342-350)
scan_else(ls, s) == take_body(ls, s, s, ScanTo(ls, s.i + 1, "else"))

\* variant of for_abort: the error discards the bindings
for_abort_rolls_back(s) == Scan(s.i, s.processed_lines, <<>>, "for_error", TRUE)

\* the except clause of the `for` branch (cli.py 376-378)
for_abort(s) == Scan(s.i, s.processed_lines, s.variables, "for_error", TRUE)

\* int(arg.strip()) for each argument text (cli.py 361)
ParseAll(texts) == [k \in 1..Len(texts) |-> ParseInt(Strip(texts[k]))]

\* the loop over values with the body lines[s.i + 1 : j] (cli.py 371-374)
for_loop(ls, s, var_name, values, j) ==
    Scan(j + 1,
         s.processed_lines \o Repeat(Between(ls, s.i + 1, j), Len(values)),
         IF values = <<>> THEN s.variables
         ELSE SetVar(s.variables, var_name, IntV(values[Len(values)])),
         s.status, FALSE)

\* range(*range_args) raises on more than three arguments and on a zero
\* step; the body has been collected by then (cli.py 364-371)
for_range(ls, s, var_name, range_args) ==
    IF Len(range_args) > 3 \/ (Len(range_args) = 3 /\ range_args[3] = 0)
    THEN for_abort(s)
    ELSE for_loop(ls, s, var_name, RangeOf(range_args), ScanTo(ls, s.i + 1, "for"))

\* the list comprehension of cli.py 361 raises when one int() does
for_args(ls, s, var_name, parsed) ==
    IF \E k \in 1..Len(parsed) : ~parsed[k].ok THEN for_abort(s)
    ELSE for_range(ls, s, var_name, [k \in 1..Len(parsed) |-> parsed[k].val])

\* the syntax test on the split head (cli.py 356-361)
for_parts(ls, s, parts) ==
    IF Len(parts) # 2 \/ ~StartsWith(parts[2], S_range) THEN for_abort(s)
    ELSE for_args(ls, s, Strip(parts[1]),
                  ParseAll(SplitOn(Slice(parts[2], 6, -1), S_comma)))

\* the `for` branch (cli.py 353-380)
scan_for(ls, s, line) == for_parts(ls, s, SplitOn(Strip(SliceFrom(line, 4)), S_in))

\* the chain of elif tests after the assignment test has failed (cli.py
\* 293-389); t is the scan state the failed test has left
scan_directive(ls, t, line) ==
    IF StartsWith(line, S_if) THEN scan_if(ls, t, line)
    ELSE IF StartsWith(line, S_else_if) THEN scan_else_if(ls, t, line)
    ELSE IF line = S_else THEN scan_else(ls, t)
    ELSE IF StartsWith(line, S_for) THEN scan_for(ls, t, line)
    ELSE IF line = S_end THEN Scan(t.i + 1, t.processed_lines, t.variables, t.status, FALSE)
    ELSE Scan(t.i + 1, Append(t.processed_lines, line), t.variables, t.status, FALSE)

\* `if self.process_variable_assignment(line)` with a the result of the call
\* (cli.py 288-290)
scan_assignment(ls, s, line, a) ==
    IF a.ok THEN Scan(s.i + 1, s.processed_lines, a.variables, a.status, FALSE)
    ELSE scan_directive(ls, Scan(s.i, s.processed_lines, a.variables, a.status, FALSE), line)

\* the stripped line (cli.py 282-285)
scan_stripped(ls, s, line) ==
    IF line = <<>> THEN Scan(s.i + 1, s.processed_lines, s.variables, s.status, FALSE)
    ELSE scan_assignment(ls, s, line,
                         process_variable_assignment(line, s.variables, s.status))

scan_line(ls, s) == scan_stripped(ls, s, Strip(ls[s.i + 1]))

\* the outer while loop from state s to its end
RECURSIVE scan_from(_, _)
scan_from(ls, s) ==
    IF s.aborted \/ s.i >= Len(ls) THEN s ELSE scan_from(ls, scan_line(ls, s))

\* process_control_structures: the returned list, the dictionary and the status
process_control_structures(ls, d, st) ==
    LET s == scan_from(ls, Scan(0, <<>>, d, st, FALSE))
    IN  [lines |-> IF s.aborted THEN <<>> ELSE s.processed_lines,
         variables |-> s.variables, status |-> s.status]

(***************************************************************************)
(* The key loop of run() (cli.py 695-774): one action per key.             *)
(***************************************************************************)
NoEdit == <<>>     \* value of last.pre when no edit is remembered

\* value of last.command when the key was not ':'
NoCommand == [text |-> <<>>, end |-> "none"]

\* number of characters in the buffer ls
RECURSIVE TotalChars(_)
TotalChars(ls) == IF ls = <<>> THEN 0 ELSE Len(Head(ls)) + TotalChars(Tail(ls))

\* The INSERT-mode handlers run() precedes with save_state() (cli.py 754-761).
Captures(key) == mode = "INSERT" /\ key \in {"insert_char", "backspace", "new_line"}

\* The NORMAL-mode commands that change the line sequence (cli.py 136-161).
Mutates(key) ==
    /\ mode = "NORMAL"
    /\ key \in {"delete_char", "delete_line", "insert_line_below", "insert_line_above"}

\* last.pre remembers the buffer before the latest of these edits and last.edit
\* the captured one, as long as it has only been followed by ESC and then one
\* undo.
Carries(key) ==
    \/ mode = "INSERT" /\ key = "esc"
    \/ mode = "NORMAL" /\ key = "undo" /\ last.key = "esc"

\* last.run follows a run of captured INSERT-mode keys and the undos after it:
\* k keys captured, u of them undone, base the buffer before the first and
\* depth the height of the undo stack then.  Any other change of the buffer
\* ends the run.
NoRun == [k |-> 0, u |-> 0, base |-> NoEdit, depth |-> 0]

NextRun(key) ==
    IF Captures(key)
    THEN IF last.run.k > 0 /\ last.run.u = 0
         THEN [last.run EXCEPT !.k = @ + 1]
         ELSE [k |-> 1, u |-> 0, base |-> lines, depth |-> Len(history)]
    ELSE IF mode = "NORMAL" /\ key = "undo"
    THEN IF last.run.k > last.run.u THEN [last.run EXCEPT !.u = @ + 1] ELSE NoRun
    ELSE IF Mutates(key) \/ key = "handle_tab" THEN NoRun
    ELSE last.run

\* One pass of the loop with handler `key`: the buffer state becomes e, the mode m,
\* the history h; upd tells whether the handler called update_status().
KeyStep(key, e, m, h, upd) ==
    /\ running
    /\ pc = "idle"
    /\ nkeys < MaxKeys
    /\ nkeys' = nkeys + 1
    /\ lines' = e.lines
    /\ current_line' = e.current_line
    /\ current_col' = e.current_col
    /\ mode' = m
    /\ history' = h
    /\ status' = IF upd THEN "mode" ELSE status
    /\ last' = [key |-> key, nlines |-> Len(lines),
                edit |-> IF Captures(key) THEN key
                         ELSE IF Carries(key) THEN last.edit ELSE "none",
                pre |-> IF Captures(key) \/ Mutates(key) THEN lines
                        ELSE IF Carries(key) THEN last.pre ELSE NoEdit,
                command |-> NoCommand, run |-> NextRun(key)]
    /\ UNCHANGED <<running, expVars>>

Here == Ed(lines, current_line, current_col)
MoveTo(p) == Ed(lines, p.current_line, p.current_col)

\* curses.KEY_UP / KEY_DOWN / KEY_LEFT / KEY_RIGHT, handled in both modes
KeyUp    == KeyStep("move_up", MoveTo(move_up(lines, current_line, current_col)), mode, history, FALSE)
KeyDown  == KeyStep("move_down", MoveTo(move_down(lines, current_line, current_col)), mode, history, FALSE)
KeyLeft  == KeyStep("move_left", Ed(lines, current_line, move_left(lines, current_line, current_col)),
                    mode, history, FALSE)
KeyRight == KeyStep("move_right", Ed(lines, current_line, move_right(lines, current_line, current_col)),
                    mode, history, FALSE)

\* '\t': handle_tab, no save_state; the key is then unbound in either mode
KeyTab == KeyStep("handle_tab", handle_tab(lines, current_line, current_col, mode), mode, history, FALSE)

\* '?': the help window, then `continue`
KeyHelp == KeyStep("show_help_window", Here, mode, history, FALSE)

\* variant of KeyEscInsert: the cursor steps back one column, as in vi
KeyEscInsert_steps_back ==
    /\ mode = "INSERT"
    /\ KeyStep("esc", Ed(lines, current_line, Max(0, current_col - 1)), "NORMAL", history, TRUE)

\* ESC in INSERT mode
KeyEscInsert ==
    /\ mode = "INSERT"
    /\ KeyStep("esc", Here, "NORMAL", history, TRUE)

\* ESC in NORMAL mode: alone, or the start of an escape sequence ESC [ A..D,
\* or followed by any other key, which is swallowed
KeyEscNormal ==
    /\ mode = "NORMAL"
    /\ \E seq \in {"none", "A", "B", "C", "D", "other"} :
          KeyStep(CASE seq = "A" -> "move_up" [] seq = "B" -> "move_down"
                    [] seq = "C" -> "move_right" [] seq = "D" -> "move_left"
                    [] OTHER -> "noop",
                  CASE seq = "A" -> MoveTo(move_up(lines, current_line, current_col))
                    [] seq = "B" -> MoveTo(move_down(lines, current_line, current_col))
                    [] seq = "C" -> Ed(lines, current_line, move_right(lines, current_line, current_col))
                    [] seq = "D" -> Ed(lines, current_line, move_left(lines, current_line, current_col))
                    [] OTHER -> Here,
                  mode, history, FALSE)

\* curses.KEY_BACKSPACE: INSERT saves the state first; NORMAL reaches
\* backspace() through self.commands, where it does nothing
KeyBackspace ==
    KeyStep("backspace", backspace(lines, current_line, current_col, mode), mode,
            IF mode = "INSERT" THEN save_state(history, lines) ELSE history, FALSE)

\* curses.KEY_ENTER or 10
KeyEnter ==
    KeyStep("new_line", new_line(lines, current_line, current_col, mode), mode,
            IF mode = "INSERT" THEN save_state(history, lines) ELSE history,
            mode = "INSERT")

\* a printable character in INSERT mode
KeyChar ==
    /\ mode = "INSERT"
    /\ \E ch \in Chars :
          KeyStep("insert_char", insert_char(lines, current_line, current_col, ch), mode,
                  save_state(history, lines), FALSE)

\* NORMAL-mode commands of self.commands
Normal(key, e, m, h, upd) == mode = "NORMAL" /\ KeyStep(key, e, m, h, upd)

Cmd_i == Normal("enter_insert_mode", Here, "INSERT", history, TRUE)
Cmd_a == Normal("enter_insert_mode_after", Ed(lines, current_line, enter_insert_mode_after(lines, current_line, current_col)),
                "INSERT", history, TRUE)
Cmd_A == Normal("move_to_end_and_insert", Ed(lines, current_line, move_to_end_and_insert(lines, current_line)),
                "INSERT", history, TRUE)
Cmd_I == Normal("move_to_start_and_insert", Ed(lines, current_line, 0), "INSERT", history, TRUE)
Cmd_h == Normal("move_left", Ed(lines, current_line, move_left(lines, current_line, current_col)),
                mode, history, FALSE)
Cmd_l == Normal("move_right", Ed(lines, current_line, move_right(lines, current_line, current_col)),
                mode, history, FALSE)
Cmd_j == Normal("move_down", MoveTo(move_down(lines, current_line, current_col)), mode, history, FALSE)
Cmd_k == Normal("move_up", MoveTo(move_up(lines, current_line, current_col)), mode, history, FALSE)
Cmd_o == Normal("insert_line_below", insert_line_below(lines, current_line, current_col), "INSERT", history, TRUE)
Cmd_O == Normal("insert_line_above", insert_line_above(lines, current_line, current_col), "INSERT", history, TRUE)
Cmd_x == Normal("delete_char", delete_char(lines, current_line, current_col), mode, history, FALSE)
Cmd_d == Normal("delete_line", delete_line(lines, current_line, current_col), mode, history, FALSE)
Cmd_u ==
    LET r == undo(history, lines, current_line, current_col)
    IN  Normal("undo", r.ed, mode, r.history, history # <<>>)

\* a NORMAL-mode key that is not in self.commands (space, digits, ...)
KeyUnbound == Normal("noop", Here, mode, history, FALSE)

\* the printable keys typed on the command line before Enter or ESC
CommandLines == {<<>>, <<"q">>, <<"w">>, <<"q", "q">>, <<"w", "q">>, <<" ", "q">>, <<"Q">>}

\* variant of command_read: ESC leaves what was typed
command_read_esc_keeps(typed, end) == typed

\* the reading loop of command_mode (cli.py 417-428): `command` when the loop
\* is left by Enter or by ESC after the keys `typed`
command_read(typed, end) == IF end = "esc" THEN <<>> ELSE typed

\* the tail of command_mode (cli.py 430-434): what it returns and the status
command_mode(command, st) ==
    [quit |-> command = <<"q">>,
     status |-> IF command = <<"w">> THEN "save_not_implemented" ELSE st]

\* ':' in NORMAL mode: command_mode reads the command line; run() returns when
\* the handler returns True and refreshes otherwise (cli.py 770-774)
Cmd_colon ==
    /\ running
    /\ pc = "idle"
    /\ mode = "NORMAL"
    /\ nkeys < MaxKeys
    /\ nkeys' = nkeys + 1
    /\ \E typed \in CommandLines, end \in {"enter", "esc"} :
          /\ running' = ~command_mode(command_read(typed, end), status).quit
          /\ status' = command_mode(command_read(typed, end), status).status
          /\ last' = [key |-> "command_mode", nlines |-> Len(lines), edit |-> "none",
                      pre |-> NoEdit,
                      command |-> [text |-> command_read(typed, end), end |-> end],
                      run |-> last.run]
    /\ UNCHANGED <<edVars, expVars>>

EditorNext ==
    \/ KeyUp \/ KeyDown \/ KeyLeft \/ KeyRight
    \/ KeyTab \/ KeyHelp \/ KeyEscInsert \/ KeyEscNormal
    \/ KeyBackspace \/ KeyEnter \/ KeyChar
    \/ Cmd_i \/ Cmd_a \/ Cmd_A \/ Cmd_I
    \/ Cmd_h \/ Cmd_j \/ Cmd_k \/ Cmd_l
    \/ Cmd_o \/ Cmd_O \/ Cmd_x \/ Cmd_d \/ Cmd_u \/ Cmd_colon
    \/ KeyUnbound

\* value of tty when nothing has been attempted: ok is the outcome of the
\* latest attempt, failed whether an attempt of the current send has failed
NoAttempt == [ok |-> TRUE, failed |-> FALSE]

\* value of note outside an expansion
NoNote == [chain |-> "none", seen |-> {}]

\* TextEditor.__init__ followed by the prologue of run()
Init ==
    /\ lines = << <<>> >>
    /\ current_line = 0
    /\ current_col = 0
    /\ mode = "NORMAL"
    /\ history = <<>>
    /\ nkeys = 0
    /\ status = "mode"
    /\ variables = <<>>
    /\ running = TRUE
    /\ pc = "idle"
    /\ i = 0
    /\ processed_lines = <<>>
    /\ aborted = FALSE
    /\ sent = <<>>
    /\ tty = NoAttempt
    /\ note = NoNote
    /\ last = [key |-> "init", nlines |-> 1, edit |-> "none", pre |-> NoEdit,
               command |-> NoCommand, run |-> NoRun]

Next == EditorNext

\* the editor from its start, for sessions of at most MaxKeys keys (editing,
\* motion, command line); the text typed is over Chars, and the send handlers
\* are run on scripts in SpecSend and SpecLine below
Spec == Init /\ [][Next]_vars

(***************************************************************************)
(* How the claims read a script: the well-formed `for` line, the closing   *)
(* `end`, the failing `let`.  These do not come from the code; the         *)
(* expansion steps below compare what the code did against them and record *)
(* the outcome in note.seen.                                               *)
(***************************************************************************)
NotFor == [ok |-> FALSE, var |-> <<>>, args |-> <<>>]

\* `for <var> in range(<1 to 3 integers>)`, with the closing parenthesis
ForArgs(var, parsed) ==
    IF /\ Len(parsed) \in 1..3
       /\ \A k \in 1..Len(parsed) : parsed[k].ok
       /\ (Len(parsed) = 3 => parsed[3].val # 0)
    THEN [ok |-> TRUE, var |-> var, args |-> [k \in 1..Len(parsed) |-> parsed[k].val]]
    ELSE NotFor

ForRange(var, r) ==
    IF ~StartsWith(r, S_range) \/ r[Len(r)] # ")" THEN NotFor
    ELSE ForArgs(var, ParseAll(SplitOn(SubSeq(r, Len(S_range) + 1, Len(r) - 1), S_comma)))

ForParts(parts) ==
    IF Len(parts) # 2 THEN NotFor ELSE ForRange(Strip(parts[1]), Strip(parts[2]))

ForHead(line) ==
    IF ~StartsWith(Strip(line), S_for) THEN NotFor
    ELSE ForParts(SplitOn(Strip(SliceFrom(Strip(line), 4)), S_in))

\* index of the first line at or after k that is exactly `end`, len when none
RECURSIVE NextEnd(_, _)
NextEnd(ls, k) ==
    IF k >= Len(ls) THEN Len(ls)
    ELSE IF Strip(ls[k + 1]) = S_end THEN k
    ELSE NextEnd(ls, k + 1)

\* a `let` line that is not `name = expr` with exactly one `=`, or whose
\* expression does not evaluate in the dictionary d
BadLetParts(parts, d) == Len(parts) # 2 \/ ~Eval(Strip(parts[2]), d).ok

BadLet(line, d) ==
    StartsWith(line, S_let) /\ BadLetParts(SplitOn(SliceFrom(line, 4), S_eq), d)

\* the condition of the `if` or `else if` line raises when it is evaluated
\* the way evaluate_condition evaluates it
CondFails(b, line, d) ==
    ~Eval(Substitute(Strip(SliceFrom(line, IF b = "if" THEN 3 ELSE 8)), d, 1), <<>>).ok

\* the branch of the outer loop that takes the stripped line
Branch(line, d, st) ==
    IF line = <<>> THEN "blank"
    ELSE IF process_variable_assignment(line, d, st).ok THEN "let"
    ELSE IF StartsWith(line, S_if) THEN "if"
    ELSE IF StartsWith(line, S_else_if) THEN "else if"
    ELSE IF line = S_else THEN "else"
    ELSE IF StartsWith(line, S_for) THEN "for"
    ELSE IF line = S_end THEN "end"
    ELSE "command"

\* whether the if / else-if chain the scan is in has had a branch taken:
\* "none" outside a chain, "open" while every condition so far was false,
\* "taken" once one was true
NextChain(chain, b, line, d, st) ==
    IF b = "if"
    THEN IF evaluate_condition(Strip(SliceFrom(line, 3)), d, st).val THEN "taken" ELSE "open"
    ELSE IF b = "else if"
    THEN IF chain = "taken" \/ evaluate_condition(Strip(SliceFrom(line, 8)), d, st).val
         THEN "taken" ELSE "open"
    ELSE IF b = "end" THEN "none"
    ELSE chain

\* whether the step from s to s2 appended something
Grew(s, s2) == ~s2.aborted /\ Len(s2.processed_lines) > Len(s.processed_lines)

\* whether the step from s to s2, on a `for` line with head fh (a well-formed
\* one) and closing `end` at index e, did what the claims say
AsClaimed(ls, s, s2, fh, e, values) ==
    /\ ~s2.aborted
    /\ s2.processed_lines = s.processed_lines \o Repeat(Between(ls, s.i + 1, e), Len(values))
    /\ values # <<>> =>
         /\ HasVar(s2.variables, fh.var)
         /\ GetVar(s2.variables, fh.var) = IntV(values[Len(values)])

\* a directive line: `if`, `else if`, `else`, `let`, `for`
IsDirectiveText(t) ==
    \/ StartsWith(t, S_if) \/ StartsWith(t, S_else_if) \/ t = S_else
    \/ StartsWith(t, S_let) \/ StartsWith(t, S_for)

HasDirective(body) == \E k \in 1..Len(body) : IsDirectiveText(Strip(body[k]))

\* the step from s to s2 on a `for` line appended its body as text once per
\* value and did nothing else than bind the loop variable
BodyLiteral(ls, s, s2, fh, e, values) ==
    /\ AsClaimed(ls, s, s2, fh, e, values)
    /\ s2.variables = (IF values = <<>> THEN s.variables
                       ELSE SetVar(s.variables, fh.var, IntV(values[Len(values)])))
    /\ s2.status = s.status

\* a body line that begins with the letters `end` without being `end`
HasEndPrefix(body) ==
    \E k \in 1..Len(body) : StartsWith(Strip(body[k]), S_end) /\ Strip(body[k]) # S_end

ForEvents(ls, s, s2, fh, e) ==
    (IF ~fh.ok THEN {"bad_for"} ELSE {})
    \cup (IF e = Len(ls) THEN {"for_without_end"} ELSE {})
    \cup (IF fh.ok /\ e < Len(ls)
          THEN IF AsClaimed(ls, s, s2, fh, e, RangeOf(fh.args))
               THEN {"for_as_claimed"} ELSE {"for_not_as_claimed"}
          ELSE {})
    \cup (IF fh.ok /\ e < Len(ls) /\ HasDirective(Between(ls, s.i + 1, e))
          THEN IF BodyLiteral(ls, s, s2, fh, e, RangeOf(fh.args))
               THEN {"body_directive_literal"} ELSE {"body_directive_not_literal"}
          ELSE {})
    \cup (IF fh.ok /\ e < Len(ls) /\ HasEndPrefix(Between(ls, s.i + 1, e))
          THEN IF AsClaimed(ls, s, s2, fh, e, RangeOf(fh.args))
               THEN {"end_prefix_in_body"} ELSE {"end_prefix_ends_body"}
          ELSE {})

\* what the step from scan state s to s2 through branch b shows, for the
\* stripped line at index s.i
Events(ls, chain, b, line, s, s2) ==
    (IF b = "else" /\ chain = "taken" /\ Grew(s, s2) THEN {"else_body_after_taken"} ELSE {})
    \cup (IF b = "else" /\ chain # "taken" /\ Grew(s, s2) THEN {"else_body"} ELSE {})
    \cup (IF b = "else if" /\ chain = "taken" THEN {"else_if_after_taken"} ELSE {})
    \cup (IF b = "else if" /\ chain # "taken" THEN {"else_if"} ELSE {})
    \cup (IF BadLet(line, s.variables) THEN {"bad_let"} ELSE {})
    \cup (IF b \in {"if", "else if"} /\ CondFails(b, line, s.variables)
          THEN {"cond_failed"} ELSE {})
    \cup (IF b = "for" THEN ForEvents(ls, s, s2, ForHead(line), NextEnd(ls, s.i + 1)) ELSE {})

(***************************************************************************)
(* send_all_lines (cli.py 393-409), one action per step of the handler.    *)
(***************************************************************************)
\* variant of Cmd_S: every send_all_lines starts from an empty dictionary
Cmd_S_fresh_variables ==
    /\ running
    /\ pc = "idle"
    /\ mode = "NORMAL"
    /\ nkeys < MaxKeys
    /\ nkeys' = nkeys + 1
    /\ pc' = "scan"
    /\ i' = 0
    /\ processed_lines' = <<>>
    /\ aborted' = FALSE
    /\ sent' = <<>>
    /\ tty' = NoAttempt
    /\ note' = NoNote
    /\ variables' = <<>>
    /\ last' = [key |-> "send_all_lines", nlines |-> Len(lines), edit |-> "none",
            pre |-> NoEdit, command |-> NoCommand, run |-> last.run]
    /\ UNCHANGED <<edVars, status, running>>

\* 'S' in NORMAL mode: the handler starts and calls process_control_structures
Cmd_S ==
    /\ running
    /\ pc = "idle"
    /\ mode = "NORMAL"
    /\ nkeys < MaxKeys
    /\ nkeys' = nkeys + 1
    /\ pc' = "scan"
    /\ i' = 0
    /\ processed_lines' = <<>>
    /\ aborted' = FALSE
    /\ sent' = <<>>
    /\ tty' = NoAttempt
    /\ note' = NoNote
    /\ last' = [key |-> "send_all_lines", nlines |-> Len(lines), edit |-> "none",
            pre |-> NoEdit, command |-> NoCommand, run |-> last.run]
    /\ UNCHANGED <<edVars, status, variables, running>>

\* the assignments of one pass of the outer while loop that went through
\* branch b, from scan state s to s2
ScanUpdate(b, line, s, s2) ==
    /\ i' = s2.i
    /\ processed_lines' = s2.processed_lines
    /\ variables' = s2.variables
    /\ status' = s2.status
    /\ aborted' = s2.aborted
    /\ note' = [chain |-> NextChain(note.chain, b, line, variables, status),
                seen |-> note.seen \cup Events(lines, note.chain, b, line, s, s2)]

\* one pass of the outer while loop, through branch b
ScanStep(b) ==
    /\ Branch(Strip(lines[i + 1]), variables, status) = b
    /\ ScanUpdate(b, Strip(lines[i + 1]),
                  Scan(i, processed_lines, variables, status, FALSE),
                  scan_line(lines, Scan(i, processed_lines, variables, status, FALSE)))
    /\ UNCHANGED <<edVars, running, pc, sent, tty, nkeys, last>>

\* the outer while loop is at its test with lines left
Scanning == pc = "scan" /\ ~aborted /\ i < Len(lines)

ScanBlank   == Scanning /\ ScanStep("blank")
ScanLet     == Scanning /\ ScanStep("let")
ScanIf      == Scanning /\ ScanStep("if")
ScanElseIf  == Scanning /\ ScanStep("else if")
ScanElse    == Scanning /\ ScanStep("else")
ScanFor     == Scanning /\ ScanStep("for")
ScanEnd     == Scanning /\ ScanStep("end")
ScanCommand == Scanning /\ ScanStep("command")

\* process_control_structures returned an empty list (`return []` after an
\* error, or nothing to send): `if not processed_lines: return`
ReturnEmpty ==
    /\ pc = "scan"
    /\ aborted \/ (i >= Len(lines) /\ processed_lines = <<>>)
    /\ pc' = "done"
    /\ processed_lines' = <<>>
    /\ UNCHANGED <<edVars, running, status, variables, i, aborted, sent, tty, nkeys, last, note>>

\* process_control_structures returned commands: the for loop starts
StartSending ==
    /\ pc = "scan"
    /\ ~aborted /\ i >= Len(lines) /\ processed_lines # <<>>
    /\ pc' = "send"
    /\ i' = 0
    /\ UNCHANGED <<edVars, running, status, variables, processed_lines, aborted, sent, tty,
                   nkeys, last, note>>

\* one attempt of send_command_to_tty (cli.py 805-813): ok is whether the
\* subprocess succeeded; a CalledProcessError is caught there and nothing is
\* returned to the caller
Attempt(t, ok) == [ok |-> ok, failed |-> t.failed \/ ~ok]

\* variant of Transmit: a failed attempt ends the loop
Transmit_stops_on_failure ==
    /\ pc = "send"
    /\ i < Len(processed_lines)
    /\ Strip(processed_lines[i + 1]) # <<>>
    /\ sent' = Append(sent, Strip(processed_lines[i + 1]))
    /\ \E ok \in BOOLEAN :
          /\ tty' = Attempt(tty, ok)
          /\ pc' = IF ok THEN "pace" ELSE "done"
    /\ status' = "sent_line"
    /\ UNCHANGED <<edVars, running, variables, i, processed_lines, aborted, nkeys, last, note>>

\* one pass of the for loop on a line that is not blank, up to the sleep:
\* send_command_to_tty, the status, the refresh (cli.py 400-407)
Transmit ==
    /\ pc = "send"
    /\ i < Len(processed_lines)
    /\ Strip(processed_lines[i + 1]) # <<>>
    /\ sent' = Append(sent, Strip(processed_lines[i + 1]))
    /\ \E ok \in BOOLEAN : tty' = Attempt(tty, ok)
    /\ status' = "sent_line"
    /\ pc' = "pace"
    /\ UNCHANGED <<edVars, running, variables, i, processed_lines, aborted, nkeys, last, note>>

\* time.sleep(0.5) after the attempt, then the next pass (cli.py 408)
Pace ==
    /\ pc = "pace"
    /\ pc' = "send"
    /\ i' = i + 1
    /\ UNCHANGED <<edVars, running, status, variables, processed_lines, aborted, sent, tty,
                   nkeys, last, note>>

\* one pass of the for loop on a blank line: nothing is sent
SkipBlank ==
    /\ pc = "send"
    /\ i < Len(processed_lines)
    /\ Strip(processed_lines[i + 1]) = <<>>
    /\ i' = i + 1
    /\ UNCHANGED <<edVars, running, status, variables, pc, processed_lines, aborted, sent, tty,
                   nkeys, last, note>>

\* the for loop is over
SendDone ==
    /\ pc = "send"
    /\ i >= Len(processed_lines)
    /\ status' = "all_sent"
    /\ pc' = "done"
    /\ UNCHANGED <<edVars, running, variables, i, processed_lines, aborted, sent, tty, nkeys,
                   last, note>>

(***************************************************************************)
(* send_current_line (cli.py 237-243).                                     *)
(***************************************************************************)
\* variant of send_current_line: the line is sent as it stands in the buffer
send_current_line_unstripped(ls, cl) ==
    IF Strip(LineAt(ls, cl)) # <<>>
    THEN [sent |-> <<LineAt(ls, cl)>>, status |-> "sent_current"]
    ELSE [sent |-> <<>>, status |-> "empty_line"]

\* what is handed to send_command_to_tty and the status left
send_current_line(ls, cl) ==
    IF Strip(LineAt(ls, cl)) # <<>>
    THEN [sent |-> <<Strip(LineAt(ls, cl))>>, status |-> "sent_current"]
    ELSE [sent |-> <<>>, status |-> "empty_line"]

\* 's' in NORMAL mode; the handler has returned when pc is "done"
Cmd_s ==
    /\ running
    /\ pc = "idle"
    /\ mode = "NORMAL"
    /\ nkeys < MaxKeys
    /\ nkeys' = nkeys + 1
    /\ sent' = send_current_line(lines, current_line).sent
    /\ status' = send_current_line(lines, current_line).status
    /\ \E ok \in BOOLEAN :
          tty' = IF send_current_line(lines, current_line).sent = <<>>
                 THEN NoAttempt ELSE Attempt(NoAttempt, ok)
    /\ pc' = "done"
    /\ last' = [key |-> "send_current_line", nlines |-> Len(lines), edit |-> "none",
                pre |-> NoEdit, command |-> NoCommand, run |-> last.run]
    /\ UNCHANGED <<edVars, variables, running, i, processed_lines, aborted, note>>

SendNext ==
    \/ Cmd_S \/ Cmd_s
    \/ ScanBlank \/ ScanLet \/ ScanIf \/ ScanElseIf \/ ScanElse \/ ScanFor \/ ScanEnd
    \/ ScanCommand
    \/ ReturnEmpty \/ StartSending \/ Transmit \/ Pace \/ SkipBlank \/ SendDone

(***************************************************************************)
(* The scripts the expansion is run on: every buffer of at most MaxScript  *)
(* lines over Vocab, the scripts of the specification's section 8, and a   *)
(* few longer ones.                                                        *)
(***************************************************************************)
L_let_ok    == <<"l", "e", "t", " ", "x", " ", "=", " ", "2">>
L_let_two   == <<"l", "e", "t", " ", "x", " ", "=", "=", " ", "2">>
L_let_undef == <<"l", "e", "t", " ", "x", " ", "=", " ", "y">>
L_if_true   == <<"i", "f", " ", "2", " ", "=", "=", " ", "2">>
L_if_x      == <<"i", "f", " ", "x", " ", "=", "=", " ", "2">>
L_elif_x    == <<"e", "l", "s", "e", " ", "i", "f", " ", "x", " ", "=", "=", " ", "2">>
L_else      == <<"e", "l", "s", "e">>
L_end       == <<"e", "n", "d">>
L_a         == <<"a">>
L_b_padded  == <<" ", " ", "b", " ">>
L_blank     == <<>>
L_for_2     == <<"f", "o", "r", " ", "i", " ", "i", "n", " ", "r", "a", "n", "g", "e", "(", "2", ")">>
L_for_bad   == <<"f", "o", "r", " ", "b", "a", "d", " ", "s", "y", "n", "t", "a", "x">>
L_for_open  == <<"f", "o", "r", " ", "i", " ", "i", "n", " ", "r", "a", "n", "g", "e", "(", "2", "]">>
L_end_test  == <<"e", "n", "d", "_", "t", "e", "s", "t">>

Vocab ==
    {L_let_ok, L_let_two, L_let_undef, L_if_true, L_if_x, L_elif_x, L_else, L_end,
     L_a, L_b_padded, L_blank, L_for_2, L_for_bad, L_for_open, L_end_test}

L_gpio_on == <<"g", "p", "i", "o", "_", "o", "n">>
L_c       == <<"c">>
L_d       == <<"d">>

Script_if_else ==
    <<<<"l", "e", "t", " ", "x", " ", "=", " ", "3">>, <<"i", "f", " ", "x", " ", "=", "=", " ", "3">>, L_a, L_else, <<"b">>, L_end>>
Script_if_elif_else ==
    <<L_let_ok, <<"i", "f", " ", "x", " ", "=", "=", " ", "3">>, L_a, L_elif_x, L_c, L_else, L_d, L_end>>
Script_for_5 ==
    <<<<"f", "o", "r", " ", "i", " ", "i", "n", " ", "r", "a", "n", "g", "e", "(", "5", ")">>, L_gpio_on, L_end>>
Script_for_step ==
    <<<<"f", "o", "r", " ", "i", " ", "i", "n", " ", "r", "a", "n", "g", "e", "(", "2", ",", " ", "6", ",", " ", "2", ")">>, L_gpio_on, L_end>>
Script_for_bad ==
    <<L_a, L_for_bad, <<"b">>, L_end>>

Examples ==
    {Script_if_else, Script_if_elif_else, Script_for_5, Script_for_step, Script_for_bad}

\* further scripts longer than MaxScript lines
Script_for_end_prefix ==
    <<L_for_2, L_end_test, L_let_ok, L_end>>

Probes == {Script_for_end_prefix}

Scripts == (UNION {[1..n -> Vocab] : n \in 1..MaxScript}) \cup Examples \cup Probes

\* the buffer holds a script and the operator is about to press 's' or 'S';
\* the handlers read nothing of the editor but self.lines and
\* self.current_line
InitSend ==
    /\ lines \in Scripts
    /\ current_line = 0
    /\ current_col = 0
    /\ mode = "NORMAL"
    /\ history = <<>>
    /\ nkeys = 0
    /\ status = "mode"
    /\ variables = <<>>
    /\ running = TRUE
    /\ pc = "idle"
    /\ i = 0
    /\ processed_lines = <<>>
    /\ aborted = FALSE
    /\ sent = <<>>
    /\ tty = NoAttempt
    /\ note = NoNote
    /\ last = [key |-> "init", nlines |-> Len(lines), edit |-> "none",
            pre |-> NoEdit, command |-> NoCommand, run |-> NoRun]

\* one send_current_line or send_all_lines on each script
SpecSend == InitSend /\ [][SendNext]_vars

\* the same with the cursor on any line of the script, for 's'
InitLine ==
    /\ lines \in Scripts
    /\ current_line \in 0..(Len(lines) - 1)
    /\ current_col = 0
    /\ mode = "NORMAL"
    /\ history = <<>>
    /\ nkeys = 0
    /\ status = "mode"
    /\ variables = <<>>
    /\ running = TRUE
    /\ pc = "idle"
    /\ i = 0
    /\ processed_lines = <<>>
    /\ aborted = FALSE
    /\ sent = <<>>
    /\ tty = NoAttempt
    /\ note = NoNote
    /\ last = [key |-> "init", nlines |-> Len(lines), edit |-> "none",
            pre |-> NoEdit, command |-> NoCommand, run |-> NoRun]

LineNext == Cmd_s

\* one send_current_line on each line of each script
SpecLine == InitLine /\ [][LineNext]_vars

(***************************************************************************)
(* A session on a script: the send handlers return to the key loop of      *)
(* run() and further keys follow.                                          *)
(***************************************************************************)
\* the handler of 's' or 'S' has returned: run() refreshes and reads the next
\* key (cli.py 770-774, 702-703)
Return ==
    /\ pc = "done"
    /\ pc' = "idle"
    /\ UNCHANGED <<edVars, status, variables, running, i, processed_lines, aborted, sent, tty,
                   nkeys, last, note>>

Script_let_then_bad_for == <<L_let_ok, L_for_2, L_a, L_end, L_for_bad>>
Script_let_then_if      == <<L_let_ok, L_if_x, L_blank, L_a, L_end>>

\* the scripts of the sessions: the one-line scripts, the examples and a few
\* longer ones
SessionScripts ==
    {<<l>> : l \in Vocab} \cup Examples \cup Probes
      \cup {Script_let_then_bad_for, Script_let_then_if}

\* the buffer holds a script and MaxSession keys of the session are left
InitSession ==
    /\ lines \in SessionScripts
    /\ current_line = 0
    /\ current_col = 0
    /\ mode = "NORMAL"
    /\ history = <<>>
    /\ nkeys = MaxKeys - MaxSession
    /\ status = "mode"
    /\ variables = <<>>
    /\ running = TRUE
    /\ pc = "idle"
    /\ i = 0
    /\ processed_lines = <<>>
    /\ aborted = FALSE
    /\ sent = <<>>
    /\ tty = NoAttempt
    /\ note = NoNote
    /\ last = [key |-> "init", nlines |-> Len(lines), edit |-> "none",
            pre |-> NoEdit, command |-> NoCommand, run |-> NoRun]

SessionNext == SendNext \/ Return \/ EditorNext

\* MaxSession keys on each script of SessionScripts: sends, edits, motions,
\* undo and the command line in any order
SpecSession == InitSession /\ [][SessionNext]_vars


(***************************************************************************)
(* Properties of the editor, checked under Spec.                           *)
(***************************************************************************)
\* the handlers were never asked for a line outside the buffer
TypeOK ==
    /\ mode \in {"NORMAL", "INSERT"}
    /\ current_line \in 0..(Len(lines) - 1)
    /\ nkeys \in 0..MaxKeys

\* C1: after any sequence of keys the buffer holds at least one line, and
\* delete-line on a one-line buffer changes nothing (buffer, cursor, mode,
\* undo stack).
C1_BufferNeverEmpty ==
    /\ [](Len(lines) >= 1)
    /\ [][(last'.key = "delete_line" /\ Len(lines) = 1) => UNCHANGED edVars]_vars

\* C1 witness: delete-line has just run on a one-line buffer.
C1_Witness == last.key = "delete_line" /\ last.nlines = 1 /\ Len(lines) = 1

\* C2 as claimed: the cursor always lies inside the buffer,
\* 0 <= lineIndex < len(lines) and 0 <= column <= len(lines[lineIndex]).
C2_CursorInBounds ==
    /\ 0 <= current_line /\ current_line < Len(lines)
    /\ 0 <= current_col /\ current_col <= Len(LineAt(lines, current_line))

\* C3: an INSERT-mode edit (character, backspace, newline), then ESC, then
\* undo leaves exactly the line sequence that preceded the edit.
C3_UndoRestoresEdit ==
    (last.key = "undo" /\ last.edit # "none") => lines = last.pre

\* C3 witness: a newline split has been undone, giving back a one-line buffer
\* with text in it.
C3_Witness ==
    /\ last.key = "undo" /\ last.edit = "new_line"
    /\ lines = last.pre /\ Len(lines) = 1 /\ TotalChars(lines) > 0

\* C4 as claimed: every INSERT-mode key that changes the line sequence pushes
\* exactly one undo entry, equal to the line sequence before the key.
C4_InsertEditsCaptured ==
    [][(mode = "INSERT" /\ lines' # lines) => history' = Append(history, lines)]_vars


\* C16: the key loop ends only by ':' pressed in NORMAL mode with the command
\* line exactly q confirmed with Enter; no other key, no cancelled and no other
\* command line ends it.
C16_QuitOnlyByCommand ==
    /\ [][(running /\ ~running') =>
             /\ mode = "NORMAL"
             /\ last'.key = "command_mode"
             /\ last'.command = [text |-> <<"q">>, end |-> "enter"]]_vars
    /\ [](~running => last.key = "command_mode")

\* the session is ended by :q after text was typed and a line was opened
C16_Witness ==
    /\ ~running
    /\ last.command = [text |-> <<"q">>, end |-> "enter"]
    /\ Len(lines) > 1 /\ TotalChars(lines) > 0
    /\ history # <<>>

\* C17: undo with an empty undo stack changes neither the lines, the cursor,
\* the mode nor the stack, and the session goes on.
C17_UndoEmptyIsNoOp ==
    [][(last'.key = "undo" /\ history = <<>>) =>
          /\ UNCHANGED <<lines, current_line, current_col, mode, history, status>>
          /\ running']_vars

\* u as the third key, after o and ESC: nothing was captured, two lines stay
C17_Witness ==
    /\ last.key = "undo" /\ nkeys = 3
    /\ history = <<>> /\ Len(lines) = 2
    /\ running

\* C18 as claimed: INSERT-mode backspace with column > 0 removes one indent
\* unit when the column is the line's indentation width w > 0 (the line gets 4
\* shorter, the column becomes w - 4), for every w >= 1, and otherwise removes
\* the one character before the cursor.
C18_BackspaceRemovesIndentUnit ==
    [][(last'.key = "backspace" /\ mode = "INSERT" /\ current_col > 0) =>
          IF current_col = get_indent_level(LineAt(lines, current_line))
          THEN /\ Len(LineAt(lines', current_line')) = Len(LineAt(lines, current_line)) - 4
               /\ current_col' = current_col - 4
               /\ current_line' = current_line
          ELSE /\ lines' = ListSet(lines, current_line,
                                   SliceTo(LineAt(lines, current_line), current_col - 1)
                                     \o SliceFrom(LineAt(lines, current_line), current_col))
               /\ current_col' = current_col - 1
               /\ current_line' = current_line]_vars

\* the indentation C19 claims for the line opened after `before`
ClaimedIndent(before) ==
    IF FirstWordLower(before) \in {KwIf, KwFor, KwElse} THEN get_indent_level(before) + 4
    ELSE IF FirstWordLower(before) = KwEnd THEN Max(0, get_indent_level(before) - 4)
    ELSE get_indent_level(before)

\* the buffer state C19 claims after Enter with the cursor at column cc of line cl
ClaimedSplit(ls, cl, cc) ==
    Ed(ListInsert(ListSet(ls, cl, SliceTo(LineAt(ls, cl), cc)), cl + 1,
                  Spaces(ClaimedIndent(SliceTo(LineAt(ls, cl), cc)))
                    \o SliceFrom(LineAt(ls, cl), cc)),
       cl + 1, ClaimedIndent(SliceTo(LineAt(ls, cl), cc)))

\* C19 as claimed: Enter in INSERT mode keeps the text before the cursor,
\* opens the next line with indent blanks and the text after the cursor, and
\* puts the cursor at (line + 1, indent), where indent is the indentation of
\* the text before the cursor, plus 4 after if/for/else, minus 4 floored at 0
\* after end, and the same also when that text is empty or blank.
C19_NewLineIndent ==
    [][(last'.key = "new_line" /\ mode = "INSERT") =>
          Ed(lines', current_line', current_col')
            = ClaimedSplit(lines, current_line, current_col)]_vars

\* C20 as claimed: an undo that immediately follows a change of the buffer
\* (ESC apart, which ends the INSERT mode the change was made or left in)
\* restores the line sequence that preceded the change, also when the change
\* was made by x, d, o or O.
C20_UndoReversesLastMutation ==
    [][(last'.key = "undo" /\ last.pre # NoEdit /\ last.pre # lines) =>
          lines' = last.pre]_vars

\* C21 as claimed: in INSERT mode every printable character received as a key
\* is inserted at the cursor column and the column advances by one; none is
\* taken by another handler.  The printable keys are those of KeyChar and '?'
\* (code 63), which run() hands to show_help_window.
C21_PrintableInserted ==
    [][/\ (mode = "INSERT" /\ last'.key = "insert_char") =>
              \E ch \in Chars : Ed(lines', current_line', current_col')
                                  = insert_char(lines, current_line, current_col, ch)
       /\ (mode = "INSERT" /\ last'.key = "show_help_window") =>
              Ed(lines', current_line', current_col')
                = insert_char(lines, current_line, current_col, "?")]_vars

\* the handlers that only move the cursor or change the mode
MotionOrModeKeys ==
    {"move_left", "move_right", "move_up", "move_down", "enter_insert_mode",
     "enter_insert_mode_after", "move_to_end_and_insert", "move_to_start_and_insert", "esc"}

\* the step is the key h received in INSERT mode
TypesMotionLetter ==
    /\ mode = "INSERT"
    /\ KeyStep("insert_char", insert_char(lines, current_line, current_col, "h"), mode,
               save_state(history, lines), FALSE)

\* C22 as claimed: h/j/k/l and the arrow keys in either mode, i, a, A, I in
\* NORMAL mode and ESC in INSERT mode leave the line sequence and the undo
\* stack unchanged.
C22_MotionKeysEitherMode ==
    [][(last'.key \in MotionOrModeKeys \/ TypesMotionLetter) =>
          lines' = lines /\ history' = history]_vars

\* C22, amended: the keys dispatched to a motion or mode handler (h/j/k/l in
\* NORMAL mode, the arrow keys in either mode, i, a, A, I in NORMAL mode, ESC
\* in INSERT mode) leave the line sequence and the undo stack unchanged; ESC in
\* INSERT mode also leaves the cursor unchanged and sets the mode to NORMAL.
C22_MotionAndModeKeepBuffer ==
    [][/\ last'.key \in MotionOrModeKeys => lines' = lines /\ history' = history
       /\ (last'.key = "esc" /\ mode = "INSERT") =>
              /\ current_line' = current_line /\ current_col' = current_col
              /\ mode' = "NORMAL"]_vars

\* ESC has just ended an INSERT mode in which text was typed and captured
C22_Witness ==
    /\ last.key = "esc" /\ mode = "NORMAL"
    /\ current_col > 0 /\ current_col = Len(LineAt(lines, current_line))
    /\ history # <<>>

\* C23: on a line of indentation width w and length n, move-left from column
\* c > 0 goes to max(0, w - 4) if c = w and to c - 1 otherwise; move-right from
\* column c < n goes to w if c = w - 4 and to c + 1 otherwise; move-left at
\* column 0 and move-right at column n leave the cursor where it is.  Neither
\* changes the line index.
C23_HorizontalMotion ==
    [][/\ (last'.key = "move_left" /\ current_col >= 0) =>
              /\ current_col' =
                    IF current_col = 0 THEN 0
                    ELSE IF current_col = get_indent_level(LineAt(lines, current_line))
                    THEN Max(0, get_indent_level(LineAt(lines, current_line)) - 4)
                    ELSE current_col - 1
              /\ current_line' = current_line
       /\ (last'.key = "move_right" /\ current_col <= Len(LineAt(lines, current_line))) =>
              /\ current_col' =
                    IF current_col = Len(LineAt(lines, current_line)) THEN current_col
                    ELSE IF current_col = get_indent_level(LineAt(lines, current_line)) - 4
                    THEN get_indent_level(LineAt(lines, current_line))
                    ELSE current_col + 1
              /\ current_line' = current_line]_vars

\* Left as the third key, after i and Tab: from column 4 = w to column 0
C23_Witness ==
    /\ last.key = "move_left" /\ nkeys = 3
    /\ get_indent_level(LineAt(lines, current_line)) = 4
    /\ current_col = 0

\* C27: undo is last-in-first-out over snapshots: after k consecutive captured
\* INSERT-mode keys (character, backspace, newline) with no other change of the
\* buffer in between, k consecutive undos restore the line sequence that
\* preceded the first of them and bring the undo stack back to its depth; a
\* step changes the stack only at its top.
C27_UndoIsLifo ==
    /\ []((last.run.k > 0 /\ last.run.u = last.run.k) =>
             lines = last.run.base /\ Len(history) = last.run.depth)
    /\ [][\/ history' = history
          \/ history' = Append(history, lines)
          \/ history # <<>> /\ history' = SubSeq(history, 1, Len(history) - 1)]_vars

\* two captured keys on an indented line have been undone by two undos
C27_Witness ==
    /\ last.key = "undo"
    /\ last.run.k = 2 /\ last.run.u = 2
    /\ lines = last.run.base
    /\ Len(history) = last.run.depth
    /\ TotalChars(lines) > 0
(***************************************************************************)
(* Properties of the expansion (process_control_structures) and of what    *)
(* send_all_lines transmits.                                               *)
(***************************************************************************)
\* process_control_structures has returned; processed_lines is what it returned
ExpansionReturned == pc \in {"send", "pace", "done"}

TypeSendOK ==
    /\ pc \in {"idle", "scan", "send", "pace", "done"}
    /\ i \in 0..(Len(lines) + Len(processed_lines) + 1)
    /\ aborted \in BOOLEAN
    /\ note.chain \in {"none", "open", "taken"}
    /\ Len(sent) <= Max(1, Len(processed_lines))
    /\ \A k \in 1..Len(sent) : sent[k] # <<>>
    /\ tty.ok \in BOOLEAN /\ tty.failed \in BOOLEAN

\* C5: the body of an `else` line is appended to the output only when no
\* earlier branch of its if / else-if chain was taken; the script
\* let x = 3, if x == 3, a, else, b, end expands to exactly [a].
C5_ElseOnlyWhenNoBranchTaken ==
    /\ "else_body_after_taken" \notin note.seen
    /\ (lines = Script_if_else /\ ExpansionReturned) => processed_lines = <<L_a>>

\* C6: the condition of an `else if` line is evaluated, and its body emitted,
\* only when the preceding branch of the chain was not taken; the script
\* let x = 2, if x == 3, a, else if x == 2, c, else, d, end expands to
\* exactly [c].
C6_ElseIfOnlyWhenNotTaken ==
    /\ "else_if_after_taken" \notin note.seen
    /\ (lines = Script_if_elif_else /\ ExpansionReturned) => processed_lines = <<L_c>>

\* C7: a well-formed `for v in range(args)` line with body B and a closing
\* `end` appends B once per integer of the range, in order, and leaves v
\* bound to the last integer; range(5) over [gpio_on] gives five gpio_on and
\* i = 4, range(2, 6, 2) gives two and i = 4.
C7_ForRepeatsBody ==
    /\ "for_not_as_claimed" \notin note.seen
    /\ (lines = Script_for_5 /\ ExpansionReturned) =>
          /\ processed_lines = <<L_gpio_on, L_gpio_on, L_gpio_on, L_gpio_on, L_gpio_on>>
          /\ HasVar(variables, <<"i">>) /\ GetVar(variables, <<"i">>) = IntV(4)
    /\ (lines = Script_for_step /\ ExpansionReturned) =>
          /\ processed_lines = <<L_gpio_on, L_gpio_on>>
          /\ HasVar(variables, <<"i">>) /\ GetVar(variables, <<"i">>) = IntV(4)

\* C8: when the scan reaches a malformed `for` line, the expansion returns
\* the empty sequence and send_all_lines transmits nothing, not even the
\* literal lines before the malformed one.
C8_MalformedForSendsNothing ==
    ("bad_for" \in note.seen /\ ExpansionReturned) =>
        processed_lines = <<>> /\ sent = <<>>

\* C9: when the scan reaches a `let` line that is malformed or whose
\* expression fails to evaluate, the expansion returns the empty sequence:
\* the `let` line is not emitted and nothing is transmitted.
C9_BadLetSendsNothing ==
    ("bad_let" \in note.seen /\ ExpansionReturned) =>
        processed_lines = <<>> /\ sent = <<>>

\* C10: when the scan reaches a `for` line with no `end` line after it, the
\* expansion returns the empty sequence.
C10_ForWithoutEndAborts ==
    ("for_without_end" \in note.seen /\ ExpansionReturned) => processed_lines = <<>>

\* C11: when the condition of an `if` or `else if` line the scan reaches fails
\* to evaluate, the expansion returns the empty sequence and nothing of that
\* send is transmitted.
C11_CondErrorAborts ==
    ("cond_failed" \in note.seen /\ ExpansionReturned) =>
        processed_lines = <<>> /\ sent = <<>>

\* C12: a directive line inside the body of a `for` loop is appended to the
\* output as text once per iteration and is not evaluated: the loop step
\* changes the Environment only by binding the loop variable and evaluates
\* no condition.
C12_BodyDirectivesLiteral == "body_directive_not_literal" \notin note.seen

\* the commands of an expansion: its entries that are not blank, stripped
RECURSIVE NonBlank(_)
NonBlank(out) ==
    IF out = <<>> THEN <<>>
    ELSE IF Strip(Head(out)) = <<>> THEN NonBlank(Tail(out))
    ELSE <<Strip(Head(out))>> \o NonBlank(Tail(out))

\* C13: a send_all_lines whose expansion holds N commands makes exactly N
\* transmission attempts, in the order of the expansion; every attempt is
\* followed by the pacing delay before anything else is attempted, and an
\* attempt that failed does not stop or skip the ones after it.
C13_EveryCommandAttempted ==
    /\ [](pc = "done" /\ last.key = "send_all_lines" =>
            sent = NonBlank(processed_lines))
    /\ [](pc \in {"send", "pace"} =>
            sent = NonBlank(SubSeq(processed_lines, 1,
                                    IF pc = "pace" THEN i + 1 ELSE i)))
    /\ [][(last'.key = "send_all_lines" /\ Len(sent') > Len(sent)) =>
             pc' = "pace" /\ Len(sent') = Len(sent) + 1]_vars
    /\ [][pc = "pace" => pc' = "send" /\ sent' = sent]_vars

C13_Witness ==
    /\ pc = "done"
    /\ status = "all_sent"
    /\ Len(sent) >= 2
    /\ tty.failed /\ tty.ok
    /\ Len(processed_lines) > Len(sent)

\* C14: when a transmission fails, the status does not say that the line was
\* sent: neither after send_current_line nor after a step of send_all_lines.
C14_FailureReported ==
    (/\ pc = "pace" \/ last.key = "send_current_line"
     /\ sent # <<>>
     /\ ~tty.ok)
    => status \notin {"sent_line", "sent_current"}

\* C15: send_current_line transmits the stripped current line once when it is
\* not blank, directive or not, and nothing when it is blank; it leaves the
\* Environment, the buffer, the cursor and the undo stack as they were.
C15_SendCurrentLineLiteral ==
    [][last'.key = "send_current_line" =>
         /\ sent' = (IF Strip(LineAt(lines, current_line)) # <<>>
                     THEN <<Strip(LineAt(lines, current_line))>> ELSE <<>>)
         /\ UNCHANGED <<variables, lines, current_line, current_col, history>>]_vars

C15_Witness ==
    /\ last.key = "send_current_line"
    /\ current_line > 0
    /\ Len(sent) = 1
    /\ sent[1] = L_let_ok
    /\ variables = <<>>


\* the scan state one pass of the outer while loop leaves
PassFrom(ls, k, out, d, st) == scan_line(ls, Scan(k, out, d, st, FALSE))

\* C24: the expansion of a finite line sequence terminates: every pass of the
\* outer scan (blank, let, if, else if, else, for, end, literal) that does not
\* return from the function strictly increases the index i, never beyond one
\* past the number of lines, and the scan goes on exactly while i is below the
\* number of lines.
C24_ExpansionTerminates ==
    /\ [](Scanning =>
            \/ PassFrom(lines, i, processed_lines, variables, status).aborted
            \/ /\ PassFrom(lines, i, processed_lines, variables, status).i > i
               /\ PassFrom(lines, i, processed_lines, variables, status).i <= Len(lines) + 1)
    /\ [][(pc = "scan" /\ pc' = "scan") => aborted' \/ i' > i]_vars
    /\ [][(pc = "scan" /\ pc' # "scan") => aborted \/ i >= Len(lines)]_vars

\* the scan of the if / else if / else example has reached the end of its
\* eight lines
C24_Witness ==
    /\ lines = Script_if_elif_else
    /\ pc = "scan" /\ ~aborted /\ i = Len(lines)
    /\ processed_lines # <<>>

\* C25 as claimed: the body of a `for` loop runs to the next line that is
\* exactly `end`; a body line that only begins with the letters `end`, such as
\* end_test, does not end the body and is emitted on every iteration.
C25_BodyEndsAtExactEnd == "end_prefix_ends_body" \notin note.seen

\* the stripped line the scan is at
ScanLine == Strip(lines[i + 1])

\* C26: the Environment starts empty and is changed only by a pass of the
\* expansion scan over a `let` line or over a `for` line (the loop-variable
\* binding): no key of the editor, no undo, no send_current_line, no command
\* line and no `if` / `else if` pass changes it, and the bindings a
\* send_all_lines made are those the next one starts with.
C26_EnvironmentOnlyByLetAndFor ==
    /\ [](last.key = "init" => variables = <<>>)
    /\ [][variables' # variables =>
             /\ Scanning
             /\ StartsWith(ScanLine, S_let) \/ StartsWith(ScanLine, S_for)]_vars
    /\ [][nkeys' # nkeys => variables' = variables]_vars

\* a second send_all_lines starts with the binding of x the first one made
C26_Witness ==
    /\ last.key = "send_all_lines" /\ pc = "scan" /\ i = 0
    /\ HasVar(variables, <<"x">>)
    /\ GetVar(variables, <<"x">>) = IntV(2)

\* C28: expansion has no rollback.  The pass of the scan that aborts leaves the
\* Environment as the earlier `let` lines and completed `for` loops of the
\* same expansion made it, nothing after the abort changes it (the empty
\* return, the return to the key loop, later keys), and no command of that
\* send_all_lines is handed to the terminal.
C28_NoRollback ==
    /\ [][(~aborted /\ aborted') => variables' = variables]_vars
    /\ [][aborted => variables' = variables]_vars
    /\ []((aborted /\ last.key = "send_all_lines") => sent = <<>> /\ tty = NoAttempt)
    /\ []((aborted /\ pc # "scan") => processed_lines = <<>>)

\* the expansion bound x and ran a loop over i, aborted at the malformed `for`
\* line and returned to the key loop: both bindings are there, nothing was sent
C28_Witness ==
    /\ lines = Script_let_then_bad_for
    /\ last.key = "send_all_lines" /\ pc = "idle" /\ aborted
    /\ status = "for_error"
    /\ HasVar(variables, <<"x">>) /\ GetVar(variables, <<"x">>) = IntV(2)
    /\ HasVar(variables, <<"i">>) /\ GetVar(variables, <<"i">>) = IntV(1)
    /\ sent = <<>>
====
